---- MODULE Spec2Model ----
(***************************************************************************)
(* A model of the reverse-mode autodiff engine of                          *)
(* Solution_Autodiff_Algorithm.ipynb: the class Scalar (val, grad,         *)
(* backward), its operators __add__ and __mul__, the notebook cells that   *)
(* exercise them, and the linear-regression training loop.                 *)
(*                                                                         *)
(* Scalars live in an arena `nodes`: node i is a record with the fields    *)
(* val and grad of the Python object, and op/lhs/rhs standing for the      *)
(* closure stored in its `backward` attribute (the closure keeps           *)
(* references to self, other and result, never copies of their values).    *)
(* Python floats are modelled as exact rationals <<num, den>>.             *)
(***************************************************************************)
EXTENDS Integers, Sequences, FiniteSets, TLC

VARIABLES nodes, made, run, passes, pc, env

vars == <<nodes, made, run, passes, pc, env>>

----------------------------------------------------------------------------
(* Bounds *)

\* Spec, SpecCore: the number of Scalars built
MaxNodes == 3

\* Spec, SpecCore: leaf values are 1..MaxVal
MaxVal == 2

\* Spec, SpecCore: the number of backward() calls; the caller's writes of
\* grad and val come before the first call
MaxPasses == 1

\* Spec: the number of leaves whose val the caller has overwritten
MaxValWrites == 1

\* SpecCells: the number of Scalars of the expression, x included
MaxCellNodes == 5

\* SpecCells: x.val is in -MaxCellVal..MaxCellVal
MaxCellVal == 4

\* SpecCells: the number of y.backward() calls
MaxCalls == 2

\* SpecCells: the largest |val| an expression may reach
MaxMagnitude == 1000

\* SpecTrain: the number of data points (100 in the notebook)
MaxPoints == 2

\* SpecTrain: the number of iterations of the loop (EPOCHS = 100)
MaxEpochs == 2

\* SpecTrain: an iteration starts only while w.val has a denominator of at
\* most MaxDen, which keeps the exact arithmetic within TLC's integers
MaxDen == 10

----------------------------------------------------------------------------
(* Exact rational arithmetic standing for float arithmetic *)

Abs(n) == IF n < 0 THEN -n ELSE n

RECURSIVE GCD(_, _)
GCD(a, b) == IF b = 0 THEN a ELSE GCD(b, a % b)

Norm(n, d) ==
  LET g == GCD(Abs(n), Abs(d))
      s == IF d < 0 THEN -1 ELSE 1
  IN  <<(s * n) \div g, (s * d) \div g>>

R(n) == <<n, 1>>

Zero == R(0)

One == R(1)

\* sums and products cancel common factors first, to keep the integers small
RAdd(p, q) ==
  LET g == GCD(p[2], q[2])
  IN  Norm(p[1] * (q[2] \div g) + q[1] * (p[2] \div g), (p[2] \div g) * q[2])

RMul(p, q) ==
  LET g1 == GCD(Abs(p[1]), q[2])
      g2 == GCD(Abs(q[1]), p[2])
  IN  Norm((p[1] \div g1) * (q[1] \div g2), (p[2] \div g2) * (q[2] \div g1))

RSub(p, q) == RAdd(p, RMul(R(-1), q))

Vals == {R(i) : i \in 1..MaxVal}

----------------------------------------------------------------------------
(* class Scalar *)

\* Scalar.__init__: val as given, grad 0, backward a no-op (a leaf)
Scalar(v) == [val |-> v, grad |-> Zero, op |-> "leaf", lhs |-> 0, rhs |-> 0]

\* a variant of __add__ whose result holds the product
ScalarAddAsProduct(ns, a, b) ==
  Append(ns, [Scalar(RMul(ns[a].val, ns[b].val))
                EXCEPT !.op = "add", !.lhs = a, !.rhs = b])

\* Scalar.__add__, forward part: a fresh result holding self.val + other.val
\* whose backward closure refers to self (lhs) and other (rhs)
ScalarAdd(ns, a, b) ==
  Append(ns, [Scalar(RAdd(ns[a].val, ns[b].val))
                EXCEPT !.op = "add", !.lhs = a, !.rhs = b])

\* Scalar.__mul__, forward part
ScalarMul(ns, a, b) ==
  Append(ns, [Scalar(RMul(ns[a].val, ns[b].val))
                EXCEPT !.op = "mul", !.lhs = a, !.rhs = b])

\* a variant of __add__'s rule that leaves out other.grad += result.grad
AddRuleSelfOnly(ns, n) ==
  [ns EXCEPT ![ns[n].lhs].grad = RAdd(@, ns[n].grad)]

\* a variant of __add__'s rule that assigns (=) where the code accumulates
AddRuleAssign(ns, n) ==
  LET s1 == [ns EXCEPT ![ns[n].lhs].grad = ns[n].grad]
  IN  [s1 EXCEPT ![ns[n].rhs].grad = s1[n].grad]

\* a variant of __add__'s rule that clears result.grad once it is passed on
AddRuleConsume(ns, n) ==
  LET s1 == [ns EXCEPT ![ns[n].lhs].grad = RAdd(@, ns[n].grad)]
      s2 == [s1 EXCEPT ![ns[n].rhs].grad = RAdd(@, s1[n].grad)]
  IN  [s2 EXCEPT ![n].grad = Zero]

\* the two += statements of __add__'s backward closure, in order
AddRule(ns, n) ==
  LET a  == ns[n].lhs
      b  == ns[n].rhs
      s1 == [ns EXCEPT ![a].grad = RAdd(@, ns[n].grad)]
  IN  [s1 EXCEPT ![b].grad = RAdd(@, s1[n].grad)]

\* a variant of __mul__'s rule that scales other.grad by other.val
MulRuleOwnValue(ns, n) ==
  LET a  == ns[n].lhs
      b  == ns[n].rhs
      s1 == [ns EXCEPT ![a].grad = RAdd(@, RMul(ns[b].val, ns[n].grad))]
  IN  [s1 EXCEPT ![b].grad = RAdd(@, RMul(s1[b].val, s1[n].grad))]

\* a variant of __mul__'s rule whose first statement updates self.val
MulRuleWritesVal(ns, n) ==
  LET a  == ns[n].lhs
      b  == ns[n].rhs
      s1 == [ns EXCEPT ![a].val = RAdd(@, RMul(ns[b].val, ns[n].grad))]
  IN  [s1 EXCEPT ![b].grad = RAdd(@, RMul(s1[a].val, s1[n].grad))]

\* the two += statements of __mul__'s backward closure, in order; the
\* operands' val fields are read when the closure runs
MulRule(ns, n) ==
  LET a  == ns[n].lhs
      b  == ns[n].rhs
      s1 == [ns EXCEPT ![a].grad = RAdd(@, RMul(ns[b].val, ns[n].grad))]
  IN  [s1 EXCEPT ![b].grad = RAdd(@, RMul(s1[a].val, s1[n].grad))]

\* a variant of backward() whose closures leave out other.backward()
RECURSIVE BackwardSelfOnly(_, _)
BackwardSelfOnly(ns, n) ==
  IF ns[n].op = "leaf" THEN ns
  ELSE LET s == IF ns[n].op = "add" THEN AddRule(ns, n) ELSE MulRule(ns, n)
       IN  BackwardSelfOnly(s, ns[n].lhs)

\* a variant of backward() in which the lambda of a leaf clears the leaf's
\* gradient
RECURSIVE BackwardLeafClears(_, _)
BackwardLeafClears(ns, n) ==
  IF ns[n].op = "leaf" THEN [ns EXCEPT ![n].grad = Zero]
  ELSE LET s == IF ns[n].op = "add" THEN AddRule(ns, n) ELSE MulRule(ns, n)
       IN  BackwardLeafClears(BackwardLeafClears(s, ns[n].lhs), ns[n].rhs)

\* node.backward(): the no-op lambda of a leaf, or the closure of an
\* operator result: accumulate into both operands, then self.backward()
\* and other.backward()
RECURSIVE Backward(_, _)
Backward(ns, n) ==
  IF ns[n].op = "leaf" THEN ns
  ELSE LET s == IF ns[n].op = "add" THEN AddRule(ns, n) ELSE MulRule(ns, n)
       IN  Backward(Backward(s, ns[n].lhs), ns[n].rhs)

\* a variant of the traced backward() that enters each operand once:
\* other.backward() is skipped when self.backward() already entered other
RECURSIVE BackwardTraceOnce(_, _, _)
BackwardTraceOnce(ns, n, d) ==
  IF ns[n].op = "leaf" THEN [ns |-> ns, calls |-> << <<n, d>> >>]
  ELSE LET s == IF ns[n].op = "add" THEN AddRule(ns, n) ELSE MulRule(ns, n)
           l == BackwardTraceOnce(s, ns[n].lhs, d + 1)
           r == IF \E i \in 1..Len(l.calls) : l.calls[i][1] = ns[n].rhs
                THEN [ns |-> l.ns, calls |-> << >>]
                ELSE BackwardTraceOnce(l.ns, ns[n].rhs, d + 1)
       IN  [ns |-> r.ns, calls |-> << <<n, d>> >> \o l.calls \o r.calls]

\* node.backward() entered with d enclosing backward() frames, together with
\* the record of the calls it makes: calls lists <<node, enclosing frames>>
\* for every backward() entered, in call order, and ns is the arena when
\* the outermost call returns
RECURSIVE BackwardTrace(_, _, _)
BackwardTrace(ns, n, d) ==
  IF ns[n].op = "leaf" THEN [ns |-> ns, calls |-> << <<n, d>> >>]
  ELSE LET s == IF ns[n].op = "add" THEN AddRule(ns, n) ELSE MulRule(ns, n)
           l == BackwardTrace(s, ns[n].lhs, d + 1)
           r == BackwardTrace(l.ns, ns[n].rhs, d + 1)
       IN  [ns |-> r.ns, calls |-> << <<n, d>> >> \o l.calls \o r.calls]

----------------------------------------------------------------------------
(* State *)

\* made[i]: what was true of node i when it was constructed: its value and,
\* for an operator result, the values its operands had then
Made(ns, n) ==
  [val |-> ns[n].val,
   grad |-> ns[n].grad,
   a   |-> IF ns[n].op = "leaf" THEN Zero ELSE ns[ns[n].lhs].val,
   b   |-> IF ns[n].op = "leaf" THEN Zero ELSE ns[ns[n].rhs].val]

\* passes: the number of backward() calls made so far
\* run: the current run of consecutive backward() calls on one root, and
\* whether it began as a fresh pass (every gradient 0 but the root's, 1)
NoRun == [root |-> 0, calls |-> 0, fresh |-> FALSE]

Fresh(ns, n) ==
  \A i \in 1..Len(ns) : ns[i].grad = IF i = n THEN One ELSE Zero

Idx == 1..Len(nodes)

Init ==
  /\ nodes = <<>>
  /\ made = <<>>
  /\ run = NoRun
  /\ passes = 0
  /\ pc = "free"
  /\ env = <<>>

\* x = Scalar(v)
NewScalar(v) ==
  /\ pc = "free"
  /\ Len(nodes) < MaxNodes
  /\ nodes' = Append(nodes, Scalar(v))
  /\ made' = Append(made, Made(nodes', Len(nodes')))
  /\ run' = NoRun
  /\ UNCHANGED <<passes, pc, env>>

\* y = a + b
Add(a, b) ==
  /\ pc = "free"
  /\ Len(nodes) < MaxNodes
  /\ nodes' = ScalarAdd(nodes, a, b)
  /\ made' = Append(made, Made(nodes', Len(nodes')))
  /\ run' = NoRun
  /\ UNCHANGED <<passes, pc, env>>

\* y = a * b
Multiply(a, b) ==
  /\ pc = "free"
  /\ Len(nodes) < MaxNodes
  /\ nodes' = ScalarMul(nodes, a, b)
  /\ made' = Append(made, Made(nodes', Len(nodes')))
  /\ run' = NoRun
  /\ UNCHANGED <<passes, pc, env>>

\* n.grad = 0. or n.grad = 1. written by the caller
SetGrad(n, g) ==
  /\ pc = "free"
  /\ passes = 0
  /\ nodes[n].grad # g
  /\ nodes' = [nodes EXCEPT ![n].grad = g]
  /\ run' = NoRun
  /\ UNCHANGED <<made, passes, pc, env>>

\* n.val = v written by the caller on a leaf, as the training loop does
SetVal(n, v) ==
  /\ pc = "free"
  /\ nodes[n].op = "leaf"
  /\ nodes[n].val # v
  /\ passes = 0
  /\ Cardinality({i \in Idx : nodes[i].op = "leaf" /\ nodes[i].val # made[i].val})
       < MaxValWrites
  /\ nodes' = [nodes EXCEPT ![n].val = v]
  /\ run' = NoRun
  /\ UNCHANGED <<made, passes, pc, env>>

\* n.backward()
CallBackward(n) ==
  /\ pc = "free"
  /\ passes < MaxPasses
  /\ nodes' = Backward(nodes, n)
  /\ run' = IF run.root = n
            THEN [run EXCEPT !.calls = @ + 1]
            ELSE [root |-> n, calls |-> 1, fresh |-> Fresh(nodes, n)]
  /\ passes' = passes + 1
  /\ UNCHANGED <<made, pc, env>>

NextCore ==
  \/ \E v \in Vals : NewScalar(v)
  \/ \E a, b \in Idx : Add(a, b)
  \/ \E a, b \in Idx : Multiply(a, b)
  \/ \E n \in Idx, g \in {Zero, One} : SetGrad(n, g)
  \/ \E n \in Idx : CallBackward(n)

Next ==
  \/ NextCore
  \/ \E n \in Idx, v \in Vals : SetVal(n, v)

----------------------------------------------------------------------------
(* The notebook's cells on one leaf x: build y from x, then                *)
(*   x.grad = 0. ; y.grad = 1. ; y.backward()                              *)
(* x is node 1 and y is the node built last (y = x when nothing is built)  *)

CellVals == {R(i) : i \in (-MaxCellVal)..MaxCellVal}

Last == Len(nodes)

InitCells ==
  /\ \E v \in CellVals : nodes = <<Scalar(v)>>
  /\ made = <<Made(nodes, 1)>>
  /\ run = NoRun
  /\ passes = 0
  /\ pc = "build"
  /\ env = <<>>

\* y = a + b or y = a * b on x and the previous result
CellOp(o, a, b) ==
  /\ pc = "build"
  /\ a = Last \/ b = Last
  /\ Len(nodes) < MaxCellNodes
  /\ nodes' = IF o = "add" THEN ScalarAdd(nodes, a, b) ELSE ScalarMul(nodes, a, b)
  /\ Abs(nodes'[Len(nodes')].val[1]) <= MaxMagnitude
  /\ made' = Append(made, Made(nodes', Len(nodes')))
  /\ UNCHANGED <<run, passes, pc, env>>

\* x.grad = 0.
CellZero ==
  /\ pc \in {"build", "passed"}
  /\ passes < MaxCalls
  /\ nodes' = [nodes EXCEPT ![1].grad = Zero]
  /\ run' = NoRun
  /\ pc' = "zeroed"
  /\ UNCHANGED <<made, passes, env>>

\* y.grad = 1.
CellSeed ==
  /\ pc = "zeroed"
  /\ nodes' = [nodes EXCEPT ![Last].grad = One]
  /\ pc' = "seeded"
  /\ UNCHANGED <<made, run, passes, env>>

\* y.backward(), the first call after the seed or a repeated call
CellBackward ==
  /\ pc \in {"seeded", "passed"}
  /\ passes < MaxCalls
  /\ nodes' = Backward(nodes, Last)
  /\ run' = IF run.root = Last
            THEN [run EXCEPT !.calls = @ + 1]
            ELSE [root |-> Last, calls |-> 1, fresh |-> Fresh(nodes, Last)]
  /\ passes' = passes + 1
  /\ pc' = "passed"
  /\ UNCHANGED <<made, env>>

NextCells ==
  \/ \E o \in {"add", "mul"}, a, b \in {1, Last} : CellOp(o, a, b)
  \/ CellZero
  \/ CellSeed
  \/ CellBackward

SpecCells == InitCells /\ [][NextCells]_vars

----------------------------------------------------------------------------
(* Linear regression: the data cells, forward, mse and the training loop   *)

LearningRate == <<1, 100>>

WTrue == 7

XEnd == 50

XStep == <<1, 10>>

NoiseVals == {R(-1), R(0), R(1)}

InitWVals == {R(-1), R(0), R(1)}

\* X = [Scalar(i * 0.1) for i in range(-50, 50)], the first n points of it
RECURSIVE MakeX(_, _, _)
MakeX(ns, n, i) ==
  IF i > n THEN ns
  ELSE MakeX(Append(ns, Scalar(RMul(R(i - 1 - XEnd), XStep))), n, i + 1)

\* y = [W * X[i] + Scalar(random.gauss(0, 1)) for i in range(len(X))];
\* X[i] is node xs[i], noise[i] stands for the draw
RECURSIVE MakeY(_, _, _, _, _)
MakeY(ns, W, xs, noise, i) ==
  IF i > Len(xs) THEN ns
  ELSE LET s1 == ScalarMul(ns, W, xs[i])
           s2 == Append(s1, Scalar(noise[i]))
       IN  MakeY(ScalarAdd(s2, Len(s1), Len(s2)), W, xs, noise, i + 1)

\* forward(X, w): y_pred = [w * X[i] for i in range(len(X))]
RECURSIVE forward(_, _, _, _)
forward(ns, xs, w, i) ==
  IF i > Len(xs) THEN ns
  ELSE forward(ScalarMul(ns, w, xs[i]), xs, w, i + 1)

\* mse, first line: error = [y[i] + Scalar(-1.0) * y_pred[i] ...]
RECURSIVE MseError(_, _, _, _)
MseError(ns, ys, yp, i) ==
  IF i > Len(ys) THEN ns
  ELSE LET s1 == Append(ns, Scalar(R(-1)))
           s2 == ScalarMul(s1, Len(s1), yp[i])
       IN  MseError(ScalarAdd(s2, ys[i], Len(s2)), ys, yp, i + 1)

\* mse, second line: se = [error[i] * error[i] ...]
RECURSIVE MseSquare(_, _, _)
MseSquare(ns, err, i) ==
  IF i > Len(err) THEN ns
  ELSE MseSquare(ScalarMul(ns, err[i], err[i]), err, i + 1)

\* sum(se, Scalar(0)): acc = acc + se[i], starting from the node acc
RECURSIVE MseSum(_, _, _, _)
MseSum(ns, acc, se, i) ==
  IF i > Len(se) THEN ns
  ELSE LET s1 == ScalarAdd(ns, acc, se[i])
       IN  MseSum(s1, Len(s1), se, i + 1)

\* mse(y, y_pred): the arena with the loss as its last node
mse(ns, ys, yp) ==
  LET n   == Len(ys)
      b   == Len(ns)
      s1  == MseError(ns, ys, yp, 1)
      err == [i \in 1..n |-> b + 3 * i]
      s2  == MseSquare(s1, err, 1)
      se  == [i \in 1..n |-> b + 3 * n + i]
      s3  == Append(s2, Scalar(<<1, n>>))
      s4  == Append(s3, Scalar(R(0)))
      s5  == MseSum(s4, Len(s4), se, 1)
  IN  ScalarMul(s5, Len(s3), Len(s5))

\* the arena after the data cells: w, X, W and y
MakeData(w0, n, noise) ==
  LET s1 == MakeX(<<Scalar(w0)>>, n, 1)
      xs == [i \in 1..n |-> 1 + i]
      s2 == Append(s1, Scalar(R(WTrue)))
  IN  MakeY(s2, Len(s2), xs, noise, 1)

\* env: the notebook's names: w, X, y, y_pred and loss as node indices, and
\* the number of completed iterations of the loop
InitTrain ==
  /\ \E w0 \in InitWVals, n \in 1..MaxPoints :
       \E noise \in [1..n -> NoiseVals] :
         /\ nodes = MakeData(w0, n, noise)
         /\ env = [w |-> 1,
                   X |-> [i \in 1..n |-> 1 + i],
                   y |-> [i \in 1..n |-> n + 2 + 3 * i],
                   y_pred |-> <<>>,
                   loss |-> 0,
                   epoch |-> 0]
  /\ made = [i \in 1..Len(nodes) |-> Made(nodes, i)]
  /\ run = NoRun
  /\ passes = 0
  /\ pc = "forward"

\* y_pred = forward(X, w)
TrainForward ==
  /\ pc = "forward"
  /\ env.epoch < MaxEpochs
  /\ nodes[env.w].val[2] <= MaxDen
  /\ nodes' = forward(nodes, env.X, env.w, 1)
  /\ env' = [env EXCEPT !.y_pred = [i \in 1..Len(env.X) |-> Len(nodes) + i]]
  /\ made' = [i \in 1..Len(nodes') |->
                IF i <= Len(nodes) THEN made[i] ELSE Made(nodes', i)]
  /\ pc' = "mse"
  /\ UNCHANGED <<run, passes>>

\* loss = mse(y, y_pred)
TrainMse ==
  /\ pc = "mse"
  /\ nodes' = mse(nodes, env.y, env.y_pred)
  /\ env' = [env EXCEPT !.loss = Len(nodes')]
  /\ made' = [i \in 1..Len(nodes') |->
                IF i <= Len(nodes) THEN made[i] ELSE Made(nodes', i)]
  /\ pc' = "zero"
  /\ UNCHANGED <<run, passes>>

\* w.grad = 0.
TrainZeroGrad ==
  /\ pc = "zero"
  /\ nodes' = [nodes EXCEPT ![env.w].grad = Zero]
  /\ run' = NoRun
  /\ pc' = "seed"
  /\ UNCHANGED <<made, passes, env>>

\* loss.grad = 1.
TrainSeed ==
  /\ pc = "seed"
  /\ nodes' = [nodes EXCEPT ![env.loss].grad = One]
  /\ pc' = "backward"
  /\ UNCHANGED <<made, run, passes, env>>

\* loss.backward()
TrainBackward ==
  /\ pc = "backward"
  /\ nodes' = Backward(nodes, env.loss)
  /\ run' = [root |-> env.loss, calls |-> 1, fresh |-> Fresh(nodes, env.loss)]
  /\ passes' = passes + 1
  /\ pc' = "update"
  /\ UNCHANGED <<made, env>>

\* w.val -= LEARNING_RATE * w.grad, and the next iteration
TrainUpdate ==
  /\ pc = "update"
  /\ nodes' = [nodes EXCEPT ![env.w].val =
                 RSub(@, RMul(LearningRate, nodes[env.w].grad))]
  /\ env' = [env EXCEPT !.epoch = @ + 1]
  /\ pc' = "forward"
  /\ UNCHANGED <<made, run, passes>>

NextTrain ==
  \/ TrainForward
  \/ TrainMse
  \/ TrainZeroGrad
  \/ TrainSeed
  \/ TrainBackward
  \/ TrainUpdate

SpecTrain == InitTrain /\ [][NextTrain]_vars

\* the engine driven by callers that never write val
SpecCore == Init /\ [][NextCore]_vars

\* the engine driven by callers that also write the val of leaves
Spec == Init /\ [][Next]_vars

----------------------------------------------------------------------------
(* The derivative the gradients are compared with: d root / d n as the sum  *)
(* over all paths from root down to n of the product of the local partial   *)
(* derivatives: 1 for an operand of a sum, the other operand's value for   *)
(* an operand of a product                                                  *)

\* d m / d n along the operand slots of m that hold n
Local(ns, m, n) ==
  IF ns[m].op = "leaf" THEN Zero
  ELSE LET l == IF ns[m].op = "add" THEN One ELSE ns[ns[m].rhs].val
           r == IF ns[m].op = "add" THEN One ELSE ns[ns[m].lhs].val
       IN  RAdd(IF ns[m].lhs = n THEN l ELSE Zero,
                IF ns[m].rhs = n THEN r ELSE Zero)

RECURSIVE Deriv(_, _, _)
RECURSIVE DerivVia(_, _, _, _)
\* the part of d root / d n that passes through the consumers m..root of n
DerivVia(ns, root, n, m) ==
  IF m > root THEN Zero
  ELSE RAdd(RMul(Local(ns, m, n), Deriv(ns, root, m)),
            DerivVia(ns, root, n, m + 1))

Deriv(ns, root, n) ==
  IF n = root THEN One ELSE DerivVia(ns, root, n, n + 1)

RECURSIVE Reaches(_, _, _)
\* n is root or a (transitive) operand of root
Reaches(ns, root, n) ==
  \/ n = root
  \/ /\ ns[root].op # "leaf"
     /\ n < root
     /\ (Reaches(ns, ns[root].lhs, n) \/ Reaches(ns, ns[root].rhs, n))

\* the number of operand slots, among the nodes root reaches, that hold n
Slots(ns, root, n) ==
  Cardinality({<<m, side>> \in (1..Len(ns)) \X {"lhs", "rhs"} :
                 /\ Reaches(ns, root, m)
                 /\ ns[m].op # "leaf"
                 /\ (IF side = "lhs" THEN ns[m].lhs ELSE ns[m].rhs) = n})

\* one backward() call on root has just returned, begun with every gradient
\* 0 but root's, which was 1
FreshPassDone(root) ==
  run.root = root /\ run.calls = 1 /\ run.fresh

IsNode(n, o, a, b) ==
  nodes[n].op = o /\ nodes[n].lhs = a /\ nodes[n].rhs = b

----------------------------------------------------------------------------
(* Claims *)

\* C1: after a fresh pass on a graph in which some node is held by two or
\* more operand slots, that node and every node it was computed from carry
\* the derivative of the root (the sum over all paths).
C1_ReconvergentExact ==
  (pc = "passed" /\ FreshPassDone(Last)) =>
    \A x \in 1..(Last - 1) :
      Slots(nodes, Last, x) >= 2 =>
        \A n \in 1..x :
          Reaches(nodes, x, n) => nodes[n].grad = Deriv(nodes, Last, n)

\* x, a = x * x, y = a + a
IsSquareTwice ==
  Len(nodes) = 3 /\ IsNode(2, "mul", 1, 1) /\ IsNode(3, "add", 2, 2)

\* x, a = x * x, b = a * x, c = b + x, y = c + x
IsCombined ==
  /\ Len(nodes) = 5
  /\ IsNode(2, "mul", 1, 1)
  /\ IsNode(3, "mul", 2, 1)
  /\ IsNode(4, "add", 3, 1)
  /\ IsNode(5, "add", 4, 1)

\* C2: for y = ((x*x*x) + x) + x, after x.grad = 0, y.grad = 1 and
\* y.backward(), x.grad is 3*v*v + 2 where v is x.val.
C2_Combined ==
  (pc = "passed" /\ IsCombined /\ FreshPassDone(5)) =>
    nodes[1].grad = R(3 * nodes[1].val[1] * nodes[1].val[1] + 2)

C2_Witness ==
  /\ pc = "passed" /\ IsCombined /\ FreshPassDone(5)
  /\ nodes[1].val = R(4)
  /\ nodes[1].grad = R(50)

\* x, a = x * x, y = a * x
IsCubic ==
  Len(nodes) = 3 /\ IsNode(2, "mul", 1, 1) /\ IsNode(3, "mul", 2, 1)

\* C3: for y = (x*x)*x, after x.grad = 0, y.grad = 1 and y.backward(),
\* x.grad is 3*v*v; the rule of y added x.val * y.grad to the gradient of x*x
\* and (x*x).val * y.grad to that of x.
C3_Cubic ==
  (pc = "passed" /\ IsCubic /\ FreshPassDone(3)) =>
    /\ nodes[1].grad = R(3 * nodes[1].val[1] * nodes[1].val[1])
    /\ nodes[2].grad = R(nodes[1].val[1])
    /\ nodes[3].grad = One

C3_Witness ==
  /\ pc = "passed" /\ IsCubic /\ FreshPassDone(3)
  /\ nodes[1].val = R(4)
  /\ nodes[1].grad = R(48)

\* x, then x + x, then (x + x) + x, ...: node k adds x to node k - 1
IsSum ==
  /\ Len(nodes) >= 2
  /\ \A k \in 2..Len(nodes) : IsNode(k, "add", k - 1, 1)

\* C4: for y the left-nested sum of n occurrences of x, after x.grad = 0,
\* y.grad = 1 and y.backward(), x.grad is n, whatever x.val; every Add rule
\* hands its result's gradient unchanged to its two operands.
C4_AdditiveFanOut ==
  (pc = "passed" /\ IsSum /\ FreshPassDone(Last)) =>
    /\ nodes[1].grad = R(Len(nodes))
    /\ \A k \in 2..Len(nodes) : nodes[k].grad = One

C1_Witness ==
  /\ pc = "passed" /\ IsSquareTwice /\ FreshPassDone(3)
  /\ nodes[1].val = R(2)
  /\ nodes[1].grad = R(16)

C4_Witness ==
  /\ pc = "passed" /\ IsSum /\ FreshPassDone(Last)
  /\ Len(nodes) = 3
  /\ nodes[1].grad = R(3)

\* C5: an operator result holds the sum (__add__) or the product (__mul__) of
\* the values its operands had, and is constructed with gradient 0, as a
\* new node after its operands.
C5_ForwardValues ==
  \A n \in Idx :
    /\ made[n].grad = Zero
    /\ nodes[n].op # "leaf" =>
         /\ nodes[n].lhs < n /\ nodes[n].rhs < n
         /\ made[n].val[2] = 1
         /\ made[n].val[1] = IF nodes[n].op = "add"
                             THEN made[n].a[1] + made[n].b[1]
                             ELSE made[n].a[1] * made[n].b[1]

C5_Witness ==
  \E n \in Idx :
    /\ nodes[n].op = "mul"
    /\ nodes[nodes[n].lhs].op = "leaf" /\ nodes[nodes[n].rhs].op = "leaf"
    /\ made[n].a = R(2) /\ made[n].b = R(1)
    /\ nodes[n].val = R(2)

\* C6: backward() of y = a * b on leaves a, b adds to a.grad the value b had
\* when y was built times y.grad, and to b.grad the value a had then, even
\* when a.val or b.val was written in between.
C6_OperandsCaptured ==
  \A y \in Idx :
    (/\ nodes[y].op = "mul"
     /\ nodes[nodes[y].lhs].op = "leaf" /\ nodes[nodes[y].rhs].op = "leaf"
     /\ FreshPassDone(y)) =>
       LET a == nodes[y].lhs
           b == nodes[y].rhs
       IN  IF a = b
           THEN nodes[a].grad = RAdd(made[y].a, made[y].b)
           ELSE nodes[a].grad = made[y].b /\ nodes[b].grad = made[y].a

C6_Witness ==
  \E y \in Idx :
    /\ nodes[y].op = "mul" /\ FreshPassDone(y)
    /\ nodes[y].lhs # nodes[y].rhs
    /\ nodes[nodes[y].rhs].op = "leaf"
    /\ nodes[nodes[y].rhs].val # made[y].b
    /\ nodes[nodes[y].lhs].grad = nodes[nodes[y].rhs].val

IsDouble ==
  Len(nodes) = 2 /\ IsNode(2, "add", 1, 1)

\* C8: for y = x + x with x.grad zeroed once and y.grad = 1, x.grad is 2
\* after the first y.backward() and 4 after a second one made without any
\* reset; y.grad keeps its seed.
C8_DoubleInvocation ==
  (pc = "passed" /\ IsDouble /\ run.root = 2 /\ run.fresh) =>
    /\ run.calls = 1 => nodes[1].grad = R(2)
    /\ run.calls = 2 => nodes[1].grad = R(4)
    /\ nodes[2].grad = One

C8_Witness ==
  /\ pc = "passed" /\ IsDouble /\ run.root = 2 /\ run.fresh
  /\ run.calls = 2
  /\ nodes[1].grad = R(4)

\* d mse / d w at the current w.val: (2/N) * sum_i (w * X_i - y_i) * X_i
RECURSIVE SumResidual(_, _)
SumResidual(ns, i) ==
  IF i = 0 THEN Zero
  ELSE LET x == ns[env.X[i]].val
           y == ns[env.y[i]].val
       IN  RAdd(RMul(RSub(RMul(ns[env.w].val, x), y), x),
                SumResidual(ns, i - 1))

MseDerivative(ns) ==
  RMul(<<2, Len(env.X)>>, SumResidual(ns, Len(env.X)))

\* C10: in every iteration of the training loop, when loss.backward() has
\* returned, w.grad is the derivative of the mean squared error with respect
\* to w at the current w.val.
C10_TrainGradient ==
  pc = "update" => nodes[env.w].grad = MseDerivative(nodes)

C10_Witness ==
  /\ pc = "update" /\ env.epoch = 1
  /\ nodes[env.w].grad = RMul(R(4), MseDerivative(nodes))
  /\ nodes[env.w].grad # Zero

\* every operator result that root reaches, root aside, sits in exactly one
\* operand slot: only leaves are shared or repeated
OnlyLeavesShared(ns, root) ==
  \A m \in 1..Len(ns) :
    (m # root /\ ns[m].op # "leaf" /\ Reaches(ns, root, m)) =>
      Slots(ns, root, m) = 1

\* C11: after a fresh pass on a graph in which only leaves are shared, every
\* node the root reaches carries the derivative of the root.
C11_LeafSharedExact ==
  (pc = "passed" /\ FreshPassDone(Last) /\ OnlyLeavesShared(nodes, Last)) =>
    \A n \in Idx :
      Reaches(nodes, Last, n) => nodes[n].grad = Deriv(nodes, Last, n)

C11_Witness ==
  /\ pc = "passed" /\ FreshPassDone(Last) /\ OnlyLeavesShared(nodes, Last)
  /\ Len(nodes) = 5
  /\ \A m \in 2..5 : Reaches(nodes, 5, m)
  /\ nodes[5].op = "mul" /\ nodes[5].lhs = 1
  /\ nodes[3].op = "add"
  /\ nodes[1].val = R(2)
  /\ nodes[1].grad # Zero

RECURSIVE Paths(_, _, _)
RECURSIVE PathsVia(_, _, _, _)
\* the paths from root to n whose last edge leaves one of the nodes m..root
PathsVia(ns, root, n, m) ==
  IF m > root THEN 0
  ELSE (IF ns[m].op = "leaf" THEN 0
        ELSE ((IF ns[m].lhs = n THEN 1 ELSE 0) +
              (IF ns[m].rhs = n THEN 1 ELSE 0)) * Paths(ns, root, m))
       + PathsVia(ns, root, n, m + 1)

\* the number of distinct paths (sequences of operand slots) from root to n
Paths(ns, root, n) ==
  IF n = root THEN 1
  ELSE IF n > root THEN 0
  ELSE PathsVia(ns, root, n, n + 1)

RECURSIVE Longest(_, _)
\* the number of edges on the longest path from n to a leaf
Longest(ns, n) ==
  IF ns[n].op = "leaf" THEN 0
  ELSE LET l == Longest(ns, ns[n].lhs)
           r == Longest(ns, ns[n].rhs)
       IN  1 + (IF l >= r THEN l ELSE r)

\* how many of the recorded calls entered backward() of node n
Invocations(calls, n) ==
  Cardinality({i \in 1..Len(calls) : calls[i][1] = n})

\* C12: a backward() call on the root returns, having entered backward() of
\* each node once per distinct path from the root to it (so not at all for
\* a node the root does not reach), and never nested deeper than the longest
\* path from the root to a leaf.
C12_OncePerPath ==
  [][(passes' = passes + 1) =>
       LET t == BackwardTrace(nodes, Last, 0)
       IN  /\ t.ns = nodes'
           /\ \A n \in Idx :
                Invocations(t.calls, n) = Paths(nodes, Last, n)
           /\ \A i \in 1..Len(t.calls) :
                t.calls[i][2] <= Longest(nodes, Last)]_vars

C12_Witness ==
  /\ pc = "passed"
  /\ Len(nodes) >= 4
  /\ \E n \in 2..(Last - 1) :
       /\ Paths(nodes, Last, n) = 2
       /\ Invocations(BackwardTrace(nodes, Last, 0).calls, n) = 2
  /\ Paths(nodes, Last, 1) >= 4
  /\ nodes[1].grad # Zero

\* the recorded calls include backward() of an operator result whose operand
\* slots hold node i
WrittenByConsumer(ns, calls, i) ==
  \E k \in 1..Len(calls) :
    LET m == calls[k][1]
    IN  ns[m].op # "leaf" /\ (ns[m].lhs = i \/ ns[m].rhs = i)

\* C13: a backward() call on root changes nothing but gradients of proper
\* transitive operands of root, each written by the rule of an operator that
\* holds the written node in an operand slot; root's gradient, every node
\* root does not reach, and everything when root is a leaf stay as they were.
C13_WritesConfined ==
  [][(passes' = passes + 1) =>
       LET root == run'.root
           t    == BackwardTrace(nodes, root, 0)
       IN  /\ Len(nodes') = Len(nodes)
           /\ \A i \in Idx :
                /\ nodes'[i].val = nodes[i].val
                /\ nodes'[i].op = nodes[i].op
                /\ nodes'[i].lhs = nodes[i].lhs
                /\ nodes'[i].rhs = nodes[i].rhs
                /\ nodes'[i].grad # nodes[i].grad =>
                     /\ i # root
                     /\ Reaches(nodes, root, i)
                     /\ WrittenByConsumer(nodes, t.calls, i)
           /\ nodes'[root].grad = nodes[root].grad
           /\ nodes[root].op = "leaf" => nodes' = nodes]_vars

C13_Witness ==
  /\ passes = 1
  /\ Len(nodes) = 3
  /\ run.root = 3 /\ run.calls = 1
  /\ nodes[3].op = "mul" /\ nodes[3].lhs = 1 /\ nodes[3].rhs = 1
  /\ nodes[3].grad = One
  /\ nodes[2].op = "leaf" /\ nodes[2].grad = One
  /\ nodes[1].grad # Zero

====
